---- MODULE Spec2Model ----
(***************************************************************************)
(* A model of the D12 capture interface of Looking Glass                   *)
(* (host/platform/Windows/capture/D12/d12.c): adapter/output selection,    *)
(* queue bring-up, the frame buffer resource cache, the waitFrame/getFrame *)
(* pipeline and the pointer shape relay.                                   *)
(***************************************************************************)
EXTENDS Integers, Sequences, FiniteSets, TLC

\* ------------------------------------------------------------------ bounds
MaxAdapters == 2
MaxOutputs == 2
MaxWidth == 2
MaxHeight == 1
MaxFormatVer == 3
MaxResources == 2
MaxWritePtr == 8
MaxCommands == 2
MaxShapeSize == 3

Min(a, b) == IF a < b THEN a ELSE b

\* ------------------------------------------- adapter and output selection
\* d12.c:463-469, the (VID, PID) pairs of devices without D3D support
blacklist ==
  << << \H1414, \H008c >>,   \* Microsoft Basic Render Driver
     << \H1b36, \H000d >>,   \* QXL
     << \H1234, \H1111 >> >> \* QEMU Standard VGA

\* a scan that compares the vendor alone
skip_mut(adapterDesc) ==
  \E n \in 1..Len(blacklist) :
    adapterDesc.VendorId = blacklist[n][1]

\* a scan that stops one entry short of the end of the blacklist
skip_short(adapterDesc) ==
  \E n \in 1..(Len(blacklist) - 1) :
    /\ adapterDesc.VendorId = blacklist[n][1]
    /\ adapterDesc.DeviceId = blacklist[n][2]

\* d12.c:471-482, the scan of the blacklist for one adapter description
skip(adapterDesc) ==
  \E n \in 1..Len(blacklist) :
    /\ adapterDesc.VendorId = blacklist[n][1]
    /\ adapterDesc.DeviceId = blacklist[n][2]

\* The (VendorId, DeviceId) pairs the enumerated adapters are drawn from: every
\* blacklisted pair, and a pair that shares its vendor with one blacklist
\* entry and its device with another.
AdapterIds ==
  { blacklist[n] : n \in 1..Len(blacklist) } \cup { << \H1414, \H000d >> }

\* An output is its DXGI_OUTPUT_DESC.AttachedToDesktop flag
OutputLists == UNION { [1..n -> BOOLEAN] : n \in 0..MaxOutputs }

\* An enumerated adapter: whether IDXGIAdapter1_GetDesc1 succeeds on it, its
\* description and its outputs in enumeration order.
Adapters ==
  { [descOk |-> TRUE, VendorId |-> id[1], DeviceId |-> id[2], outputs |-> o] :
      id \in AdapterIds, o \in OutputLists }
  \cup { [descOk |-> FALSE, VendorId |-> 0, DeviceId |-> 0, outputs |-> << >>] }

AdapterLists == UNION { [1..n -> Adapters] : n \in 0..MaxAdapters }

\* d12.c:488-498, the loop over the outputs of one adapter from index n, with
\* the set of handles held.  Yields the output left in *output (0 is NULL).
RECURSIVE outputLoop(_, _, _, _)
outputLoop(list, i, n, held) ==
  IF n > Len(list[i].outputs)
  THEN [output |-> 0, held |-> held]                  \* DXGI_ERROR_NOT_FOUND
  ELSE LET acquired == held \cup { << "output", i, n >> }
       IN  IF list[i].outputs[n]                      \* AttachedToDesktop
           THEN [output |-> n, held |-> acquired]     \* break
           ELSE outputLoop(list, i, n + 1,            \* comRef_release(output)
                           acquired \ { << "output", i, n >> })

\* d12.c:448-502, the loop over the adapters from index i
RECURSIVE adapterLoop(_, _, _)
adapterLoop(list, i, held) ==
  IF i > Len(list)
  THEN [failed |-> FALSE, adapter |-> 0, output |-> 0, held |-> held]
  ELSE LET acquired == held \cup { << "adapter", i >> }
           released == acquired \ { << "adapter", i >> }
       IN  IF ~list[i].descOk
           THEN [failed |-> TRUE, adapter |-> 0, output |-> 0,
                 held |-> released]
           ELSE IF skip(list[i])
           THEN adapterLoop(list, i + 1, released)    \* continue
           ELSE LET o == outputLoop(list, i, 1, acquired)
                IN  IF o.output # 0
                    THEN [failed |-> FALSE, adapter |-> i,
                          output |-> o.output, held |-> o.held]
                    ELSE adapterLoop(list, i + 1,
                                     o.held \ { << "adapter", i >> })

\* d12.c:440-522
d12_enumerateDevices(list) ==
  LET r == adapterLoop(list, 1, {})
  IN  IF r.failed \/ r.output = 0
      THEN [ok |-> FALSE, adapter |-> 0, output |-> 0, held |-> r.held]
      ELSE [ok |-> TRUE, adapter |-> r.adapter, output |-> r.output,
            held |-> r.held]

\* ------------------------------------------------------------------ state
VARIABLES
  adapters,        \* the adapters and outputs the DXGI factory enumerates
  selection,       \* what d12_enumerateDevices returned for them
  initialised,     \* between a successful d12_init and d12_deinit
  queueDesc,       \* d12_init's static queueDesc.Priority
  downgraded,      \* history: some d12_init had a real-time queue rejected
  this,            \* the handle fields of struct D12Interface
  copyCommand,     \* this->copyCommand: whether created, and its command list
  lastFormat,      \* this->lastFormat (Width, Height, Format)
  formatVer,       \* this->formatVer
  frameBuffers,    \* this->frameBuffers[]: size, frameBuffer, resource
  resources,       \* the placed resources created so far, by handle
  writePtr,        \* the write pointer of each FrameBuffer
  backend,         \* the capture backend: whether d12_backendInit ran
  call,            \* the last interface call: its arguments, what it
                   \* returned and what it handed to its collaborators
  requested,       \* per slot, the last d12_frameBufferToResource call
  d12_comScope,    \* the resources the global comRef scope holds a
                   \* reference to
  pointer,         \* the last d12_updatePointer call and what it did
  crashed          \* the process died of an access violation

vars ==
  << adapters, selection, initialised, queueDesc, downgraded, this, copyCommand,
     lastFormat, formatVer, frameBuffers, resources, writePtr, backend, call,
     requested, d12_comScope, pointer, crashed >>

enumVars == << adapters, selection >>
initVars == << initialised, queueDesc, downgraded, this >>
formatVars == << lastFormat, formatVer >>
cacheVars == << frameBuffers, resources, requested, d12_comScope >>
copyVars == << copyCommand, writePtr >>
pointerVars == << pointer, crashed >>

\* ------------------------------------------------------- values and inputs
REALTIME == "D3D12_COMMAND_QUEUE_PRIORITY_GLOBAL_REALTIME"
HIGH == "D3D12_COMMAND_QUEUE_PRIORITY_HIGH"
Priorities == { REALTIME, HIGH }

OK == "CAPTURE_RESULT_OK"
ERROR == "CAPTURE_RESULT_ERROR"
TIMEOUT == "CAPTURE_RESULT_TIMEOUT"
CaptureResults == { OK, ERROR, TIMEOUT }

\* d12.c:138, the frame buffer indices d12_create sized the interface for
Slots == { 0, 1 }
\* the FrameBuffer objects of the shared memory region the caller hands in
FrameBuffers == { "fbA", "fbB" }
NoFrameBuffer == "NULL"
\* the NULL resource d12_backendFetch returns when it has no frame
NoFrame == [Width |-> 0, Height |-> 0, Format |-> "NULL"]

Formats == { "DXGI_FORMAT_B8G8R8A8_UNORM", "DXGI_FORMAT_R10G10B10A2_UNORM" }
\* the D3D12_RESOURCE_DESC of a resource the backend hands out
SrcDescs == [Width : 1..MaxWidth, Height : 1..MaxHeight, Format : Formats]
\* the descriptions of one pixel format, up to one row more than MaxHeight
TallDescs ==
  [Width : 1..MaxWidth, Height : 1..(MaxHeight + 1),
   Format : { "DXGI_FORMAT_B8G8R8A8_UNORM" }]
\* the maxFrameSize of a waitFrame: up to one byte more than the largest frame
FrameSizes == 0..(4 * MaxWidth * (MaxHeight + 1) + 1)

\* the adapter lists d12_init is run against
InitAdapterLists ==
  { << >>,
    << [descOk |-> TRUE, VendorId |-> \H1414, DeviceId |-> \H008c,
        outputs |-> << TRUE >>] >>,
    << [descOk |-> TRUE, VendorId |-> \H1414, DeviceId |-> \H000d,
        outputs |-> << FALSE, TRUE >>] >> }

\* the external calls of d12_init that may fail, in call order
InitStages == << "factory", "debug", "device", "commandGroup", "heap",
                 "backend" >>
InitFailures == { InitStages[n] : n \in 1..Len(InitStages) } \cup { "none" }

\* the CaptureFrame of a call that fills none in
NoCaptureFrame ==
  [formatVer |-> 0, screenWidth |-> 0, screenHeight |-> 0, dataWidth |-> 0,
   dataHeight |-> 0, frameWidth |-> 0, frameHeight |-> 0,
   truncated |-> FALSE, pitch |-> 0, stride |-> 0, format |-> "none",
   hdr |-> FALSE, hdrPQ |-> FALSE, rotation |-> "none",
   damageRectsCount |-> 0]

\* op, the arguments (slot, frameBuffer, maxFrameSize), the description of the
\* resource d12_backendFetch returned, the result, the stage that failed, and
\* what the call did: the resource the cache returned and
\* whether it called CreatePlacedResource, the command list submitted to the
\* queue, the CreateCommandQueue attempts, the CaptureFrame filled in, the
\* handles the call acquired and those of them not released when it returned
NoCall ==
  [op |-> "create", slot |-> 0, frameBuffer |-> NoFrameBuffer,
   maxFrameSize |-> 0, src |-> NoFrame, result |-> "true", stage |-> "none",
   resource |-> 0,
   created |-> FALSE, submitted |-> << >>, attempts |-> << >>,
   frame |-> NoCaptureFrame, acquired |-> {}, held |-> {}]

Call(op, result, stage) ==
  [NoCall EXCEPT !.op = op, !.result = result, !.stage = stage]

NoHandles ==
  [factory |-> "NULL", device |-> "NULL", commandQueue |-> "NULL",
   ivshmemHeap |-> "NULL"]

\* no call of d12_frameBufferToResource on the slot since d12_init
NoRequest == [frameBuffer |-> NoFrameBuffer, size |-> 0, resource |-> 0]

\* ------------------------------------------------------ d12_init, d12_deinit
\* d12.c:148, the debug option, which nothing sets
debug == FALSE

\* a queue creation that never retries
retryCreateCommandQueue_mut(priority, accepted, attempts) ==
  [ok |-> priority \in accepted, Priority |-> priority,
   attempts |-> Append(attempts, [Priority |-> priority,
                                  ok |-> priority \in accepted])]

\* d12.c:241-255, CreateCommandQueue at queueDesc.Priority and its retry;
\* accepted are the priorities the device grants, attempts the calls made
RECURSIVE retryCreateCommandQueue(_, _, _)
retryCreateCommandQueue(priority, accepted, attempts) ==
  LET hrOk == priority \in accepted
      tried == Append(attempts, [Priority |-> priority, ok |-> hrOk])
  IN  IF hrOk
      THEN [ok |-> TRUE, Priority |-> priority, attempts |-> tried]
      ELSE IF priority = REALTIME
      THEN retryCreateCommandQueue(HIGH, accepted, tried)
      ELSE [ok |-> FALSE, Priority |-> priority, attempts |-> tried]

\* a queueDesc that every call initialises
staticQueueDesc_mut(priority, deviceOk, q) == REALTIME

\* d12.c:231-238, 249: queueDesc is static, so the priority the call leaves
\* in it, downgraded or not, is the one the next call starts from
staticQueueDesc(priority, deviceOk, q) ==
  IF deviceOk THEN q.Priority ELSE priority

\* a scope free that leaves the pointers as they were
comRef_freeScope_mut(fbs) == fbs

\* com_ref.h: comRef_freeScope releases every handle of the global scope and
\* clears the pointers that held them, the cached resources among them
comRef_freeScope(fbs) == [s \in Slots |-> [fbs[s] EXCEPT !.resource = 0]]

\* d12.c:177-294
d12_init(list, accepted, failAt) ==
  /\ ~crashed
  /\ ~initialised
  /\ LET sel == d12_enumerateDevices(list)
         deviceOk == /\ failAt # "factory"
                     /\ sel.ok
                     /\ (debug => failAt # "debug")
                     /\ failAt # "device"
         q == retryCreateCommandQueue(queueDesc, accepted, << >>)
         groupOk == deviceOk /\ q.ok /\ failAt # "commandGroup"
         result == groupOk /\ failAt \notin { "heap", "backend" }
         \* the handles acquired on the way to exit: the comRef locals and
         \* the command group
         acquired ==
           (IF failAt # "factory" THEN { "factory" } ELSE {})
           \cup (IF failAt # "factory" /\ sel.ok
                 THEN { "adapter", "output" } ELSE {})
           \cup (IF deviceOk THEN { "device" } ELSE {})
           \cup (IF deviceOk /\ q.ok THEN { "commandQueue" } ELSE {})
           \cup (IF groupOk THEN { "copyCommand" } ELSE {})
           \cup (IF groupOk /\ failAt # "heap"
                 THEN { "ivshmemHeap" } ELSE {})
         \* d12.c:281-284, comRef_toGlobal
         global == IF result
                   THEN { "factory", "device", "commandQueue", "ivshmemHeap" }
                   ELSE {}
         \* d12.c:288-291: comRef_scopePop releases the locals and
         \* comRef_freeScope the globals; neither frees the command group
         held == global \cup (acquired \cap { "copyCommand" })
         stage == IF failAt = "factory" THEN "factory"
                  ELSE IF ~sel.ok THEN "enumerate"
                  ELSE IF ~deviceOk THEN failAt
                  ELSE IF ~q.ok THEN "commandQueue"
                  ELSE IF result THEN "none" ELSE failAt
     IN  /\ (failAt = "debug" => debug)
         /\ queueDesc' = staticQueueDesc(queueDesc, deviceOk, q)
         /\ downgraded' =
              \/ downgraded
              \/ /\ deviceOk
                 /\ \E n \in 1..Len(q.attempts) :
                      q.attempts[n] = [Priority |-> REALTIME, ok |-> FALSE]
         /\ copyCommand' = IF groupOk
                           THEN [created |-> TRUE, gfxList |-> << >>]
                           ELSE copyCommand
         /\ this' = IF result
                    THEN [factory |-> "IDXGIFactory2",
                          device |-> "ID3D12Device3",
                          commandQueue |-> q.Priority,
                          ivshmemHeap |-> "ID3D12Heap"]
                    ELSE NoHandles
         /\ backend' = IF result
                       THEN [initialised |-> TRUE]
                       ELSE backend
         /\ initialised' = result
         /\ frameBuffers' = IF result THEN frameBuffers
                            ELSE comRef_freeScope(frameBuffers)
         /\ d12_comScope' = IF result THEN d12_comScope ELSE {}
         /\ call' = [Call("init", IF result THEN "true" ELSE "false", stage)
                       EXCEPT !.attempts =
                                IF deviceOk THEN q.attempts ELSE << >>,
                              !.acquired = acquired,
                              !.held = held]
  /\ UNCHANGED << enumVars, writePtr, formatVars, resources, requested,
                  pointerVars >>

\* a deinit that returns as soon as the backend's deinit fails
d12_deinit_mut(backendOk) ==
  /\ ~crashed
  /\ initialised
  /\ initialised' = FALSE
  /\ backend' = [initialised |-> FALSE]
  /\ call' = Call("deinit", IF backendOk THEN "true" ELSE "false",
                  IF backendOk THEN "none" ELSE "backend")
  /\ IF backendOk
     THEN /\ copyCommand' = [created |-> FALSE, gfxList |-> << >>]
          /\ this' = NoHandles
          /\ frameBuffers' = comRef_freeScope(frameBuffers)
          /\ d12_comScope' = {}
          /\ requested' = [s \in Slots |-> NoRequest]
     ELSE UNCHANGED << copyCommand, this, frameBuffers, d12_comScope,
                       requested >>
  /\ UNCHANGED << enumVars, queueDesc, downgraded, writePtr, formatVars,
                  resources, pointerVars >>

\* d12.c:300-309; backendOk is what the backend's deinit returns
d12_deinit(backendOk) ==
  /\ ~crashed
  /\ initialised
  /\ backend' = [initialised |-> FALSE]
  /\ copyCommand' = [created |-> FALSE, gfxList |-> << >>]
  /\ this' = NoHandles
  /\ frameBuffers' = comRef_freeScope(frameBuffers)
  /\ d12_comScope' = {}
  /\ requested' = [s \in Slots |-> NoRequest]
  /\ initialised' = FALSE
  /\ call' = Call("deinit", IF backendOk THEN "true" ELSE "false",
                  IF backendOk THEN "none" ELSE "backend")
  /\ UNCHANGED << enumVars, queueDesc, downgraded, writePtr, formatVars,
                  resources, pointerVars >>

\* -------------------------------------------------------------- d12_capture
\* d12.c:319-323; result is what d12_backendCapture returns
d12_capture(frameBufferIndex, result) ==
  /\ ~crashed
  /\ initialised
  /\ call' = [Call("capture", result, "none") EXCEPT
                !.slot = frameBufferIndex]
  /\ UNCHANGED << enumVars, initVars, copyVars, formatVars, cacheVars,
                  backend, pointerVars >>

\* ------------------------------------------------------------ d12_waitFrame
NoFormat == [Width |-> 0, Height |-> 0, Format |-> "DXGI_FORMAT_UNKNOWN"]

\* a comparison that leaves the pixel format out
formatChanged_mut(desc, last) ==
  \/ desc.Width # last.Width
  \/ desc.Height # last.Height

\* d12.c:342-344
formatChanged(desc, last) ==
  \/ desc.Width # last.Width
  \/ desc.Height # last.Height
  \/ desc.Format # last.Format

\* a row count that rounds up
maxRows_mut(desc, maxFrameSize) ==
  (maxFrameSize + desc.Width * 4 - 1) \div (desc.Width * 4)

\* d12.c:350, maxRows, an unsigned int (every size of the model is far below
\* 2^32, where the conversion starts to truncate)
maxRows(desc, maxFrameSize) ==
  maxFrameSize \div (desc.Width * 4)

\* d12.c:352-366, the CaptureFrame d12_waitFrame fills in
CaptureFrame(desc, ver, maxFrameSize) ==
  [formatVer        |-> ver,
   screenWidth      |-> desc.Width,
   screenHeight     |-> desc.Height,
   dataWidth        |-> desc.Width,
   dataHeight       |-> Min(maxRows(desc, maxFrameSize), desc.Height),
   frameWidth       |-> desc.Width,
   frameHeight      |-> desc.Height,
   truncated        |-> maxRows(desc, maxFrameSize) < desc.Height,
   pitch            |-> desc.Width * 4,
   stride           |-> desc.Width,
   format           |-> "CAPTURE_FMT_BGRA",
   hdr              |-> FALSE,
   hdrPQ            |-> FALSE,
   rotation         |-> "CAPTURE_ROT_0",
   damageRectsCount |-> 0]

\* a waitFrame that forgets the recorded format when there is no resource
d12_waitFrame_mut(frameBufferIndex, maxFrameSize, src) ==
  /\ ~crashed
  /\ initialised
  /\ formatVer' = IF src # NoFrame /\ formatChanged(src, lastFormat)
                  THEN formatVer + 1 ELSE formatVer
  /\ formatVer' <= MaxFormatVer
  /\ lastFormat' = IF src = NoFrame THEN NoFormat ELSE src
  /\ call' = IF src = NoFrame
             THEN [Call("waitFrame", ERROR, "fetch") EXCEPT
                     !.slot = frameBufferIndex,
                     !.maxFrameSize = maxFrameSize]
             ELSE [Call("waitFrame", OK, "none") EXCEPT
                     !.slot = frameBufferIndex,
                     !.maxFrameSize = maxFrameSize,
                     !.src = src,
                     !.frame = CaptureFrame(src, formatVer', maxFrameSize)]
  /\ UNCHANGED << enumVars, initVars, copyVars, cacheVars, backend,
                  pointerVars >>

\* d12.c:325-373; src is the description of the resource d12_backendFetch
\* returns for the index, or NoFrame
d12_waitFrame(frameBufferIndex, maxFrameSize, src) ==
  /\ ~crashed
  /\ initialised
  /\ IF src = NoFrame
     THEN /\ call' = [Call("waitFrame", ERROR, "fetch") EXCEPT
                        !.slot = frameBufferIndex,
                        !.maxFrameSize = maxFrameSize]
          /\ UNCHANGED formatVars
     ELSE LET changed == formatChanged(src, lastFormat)
              ver == IF changed
                     THEN formatVer + 1
                     ELSE formatVer
          IN  /\ changed => formatVer < MaxFormatVer      \* the model's cap
              /\ formatVer' = ver
              /\ lastFormat' = IF changed THEN src ELSE lastFormat
              /\ call' = [Call("waitFrame", OK, "none") EXCEPT
                            !.slot = frameBufferIndex,
                            !.maxFrameSize = maxFrameSize,
                            !.src = src,
                            !.frame = CaptureFrame(src, ver, maxFrameSize)]
  /\ UNCHANGED << enumVars, initVars, copyVars, cacheVars, backend,
                  pointerVars >>

\* ------------------------------------------------ d12_frameBufferToResource
\* the sizes of the destination the caller asks for: a whole frame of the
\* largest description, and one pixel
BufferSizes == { 4 * MaxWidth * MaxHeight, 4 }

NoSlot == [size |-> 0, frameBuffer |-> NoFrameBuffer, resource |-> 0]

\* a test that leaves the size out
cacheHit_mut(fb, frameBuffer, size) ==
  fb.resource # 0 /\ fb.frameBuffer = frameBuffer

\* d12.c:533, the resource is already set up and is big enough
cacheHit(fb, frameBuffer, size) ==
  fb.resource # 0 /\ fb.frameBuffer = frameBuffer /\ fb.size >= size

\* d12.c:524-583, on one frameBuffers[] entry and the resources created so
\* far; createOk is whether CreatePlacedResource succeeds.  A resource handle
\* is its index in resources; 0 is NULL.
d12_frameBufferToResource(fb, created, frameBuffer, size, createOk) ==
  IF cacheHit(fb, frameBuffer, size)
  THEN [result |-> fb.resource, fb |-> fb, resources |-> created,
        created |-> FALSE]
  ELSE LET set == [fb EXCEPT !.size = size, !.frameBuffer = frameBuffer]
           new == Len(created) + 1
       IN  IF ~createOk
           THEN [result |-> 0, fb |-> set, resources |-> created,
                 created |-> TRUE]
           ELSE [result |-> new, fb |-> [set EXCEPT !.resource = new],
                 resources |->
                   Append(created,
                          [frameBuffer |-> frameBuffer, Width |-> size]),
                 created |-> TRUE]

\* com_ref.h: comRef_toGlobal hands a reference to the global scope, which
\* holds it until the scope is freed
comRef_toGlobal(scope, ref) == scope \cup { ref }

\* -------------------------------------------------------------- d12_getFrame
\* framebuffer.h: the write pointer after framebuffer_set_write_ptr
framebuffer_set_write_ptr(wp, size) == wp + size

\* command_group.h: d12_commandGroupExecute hands the recorded list to the
\* queue and resets it, or fails and hands over nothing
d12_commandGroupExecute(group, execOk) ==
  IF execOk
  THEN [copyCommand |-> [group EXCEPT !.gfxList = << >>],
        submitted |-> group.gfxList]
  ELSE [copyCommand |-> group, submitted |-> << >>]

\* d12.c:375-438; src is the description of the resource d12_backendFetch
\* returns for the index, or NoFrame; syncResult is what d12_backendSync returns
d12_getFrame(frameBufferIndex, frameBuffer, maxFrameSize, src, createOk, syncResult, execOk) ==
  /\ ~crashed
  /\ initialised
  /\ LET dst == d12_frameBufferToResource(frameBuffers[frameBufferIndex],
                  resources, frameBuffer, maxFrameSize, createOk)
         copy == [src |-> frameBufferIndex, dst |-> dst.result,
                  Width |-> src.Width, Height |-> src.Height,
                  RowPitch |-> src.Width * 4]
         recorded == [copyCommand EXCEPT
                        !.gfxList = Append(copyCommand.gfxList, copy)]
         group == d12_commandGroupExecute(recorded, execOk)
         this_call == [Call("getFrame", ERROR, "none") EXCEPT
                         !.slot = frameBufferIndex,
                         !.frameBuffer = frameBuffer,
                         !.maxFrameSize = maxFrameSize,
                         !.src = src]
     IN  IF src = NoFrame
         THEN /\ call' = [this_call EXCEPT !.stage = "fetch"]
              /\ UNCHANGED << cacheVars, copyVars >>
         ELSE /\ dst.created /\ createOk => Len(resources) < MaxResources
              /\ frameBuffers' =
                   [frameBuffers EXCEPT ![frameBufferIndex] = dst.fb]
              /\ resources' = dst.resources
              /\ d12_comScope' =       \* d12.c:576
                   IF dst.created /\ dst.result # 0
                   THEN comRef_toGlobal(d12_comScope, dst.result)
                   ELSE d12_comScope
              /\ requested' =
                   [requested EXCEPT ![frameBufferIndex] =
                      [frameBuffer |-> frameBuffer, size |-> maxFrameSize,
                       resource |-> dst.result]]
              /\ IF dst.result = 0
                 THEN /\ call' = [this_call EXCEPT !.stage = "cache",
                                                   !.created = dst.created]
                      /\ UNCHANGED copyVars
                 ELSE /\ Len(copyCommand.gfxList) < MaxCommands
                      /\ IF syncResult # OK
                         THEN /\ copyCommand' = recorded
                              /\ UNCHANGED writePtr
                              /\ call' = [this_call EXCEPT
                                            !.result = syncResult,
                                            !.stage = "sync",
                                            !.resource = dst.result,
                                            !.created = dst.created]
                         ELSE /\ copyCommand' = group.copyCommand
                              /\ writePtr[frameBuffer]
                                   + src.Height * src.Width * 4 <= MaxWritePtr
                              /\ writePtr' =
                                   [writePtr EXCEPT ![frameBuffer] =
                                      framebuffer_set_write_ptr(@,
                                        src.Height * src.Width * 4)]
                              /\ call' = [this_call EXCEPT
                                            !.result = OK,
                                            !.stage = IF execOk THEN "none"
                                                      ELSE "execute",
                                            !.submitted = group.submitted,
                                            !.resource = dst.result,
                                            !.created = dst.created]
  /\ UNCHANGED << enumVars, initVars, formatVars, backend, pointerVars >>

\* --------------------------------------------------------- d12_updatePointer
\* the buffers the pointer buffer provider hands out
PointerBuffers == { "shapeA", "shapeB" }
\* a pointer that is no buffer of the provider
WildPointer == "wild"

NoPointer ==
  [shapeUpdate |-> FALSE, shapeSize |-> 0, acquired |-> "none",
   dstSize |-> 0, copyDst |-> "none", copySize |-> 0, posted |-> 0,
   postedShapeUpdate |-> FALSE]

\* d12.c:585-602.  got is what getPointerBufferFn returns; dst and dstSize are
\* what it stored when it returned true, and otherwise whatever the two
\* uninitialised locals hold (d12.c:589-590); faults is whether the memcpy
\* through a wild pointer ends the process.
d12_updatePointer(shapeUpdate, shapeSize, got, dst, dstSize, faults) ==
  /\ ~crashed
  /\ ~shapeUpdate =>
       got /\ dst \in PointerBuffers /\ dstSize = 0
  /\ got => dst \in PointerBuffers
  /\ faults =>
       shapeUpdate /\ dst = WildPointer /\ Min(dstSize, shapeSize) > 0
  /\ LET copySize == Min(dstSize, shapeSize)
     IN  pointer' =
           [shapeUpdate |-> shapeUpdate,
            shapeSize |-> shapeSize,
            acquired |-> IF ~shapeUpdate THEN "none"
                         ELSE IF got THEN "ok" ELSE "failed",
            dstSize |-> dstSize,
            copyDst |-> IF shapeUpdate THEN dst ELSE "none",
            copySize |-> IF shapeUpdate THEN copySize ELSE 0,
            posted |-> IF faults THEN 0 ELSE 1,
            postedShapeUpdate |-> shapeUpdate /\ got]
  /\ crashed' = faults
  /\ call' = Call("updatePointer", IF faults THEN "crash" ELSE "void",
                  "none")
  /\ UNCHANGED << enumVars, initVars, copyVars, formatVars, cacheVars,
                  backend >>

\* ------------------------------------------------------ adapter enumeration
\* d12.c:199, d12_enumerateDevices run on the adapters the factory enumerates
EnumerateDevices ==
  /\ selection = << >>
  /\ selection' = << d12_enumerateDevices(adapters) >>
  /\ UNCHANGED << adapters, initVars, copyVars, formatVars, cacheVars,
                  backend, call, pointerVars >>

\* ---------------------------------------------------------- specifications
\* the state d12_create leaves (d12.c:135-175): a zeroed struct
Created ==
  /\ selection = << >>
  /\ initialised = FALSE
  /\ queueDesc = REALTIME
  /\ downgraded = FALSE
  /\ this = NoHandles
  /\ copyCommand = [created |-> FALSE, gfxList |-> << >>]
  /\ lastFormat = NoFormat
  /\ formatVer = 0
  /\ frameBuffers = [s \in Slots |-> NoSlot]
  /\ resources = << >>
  /\ writePtr = [f \in FrameBuffers |-> 0]
  /\ backend = [initialised |-> FALSE]
  /\ call = NoCall
  /\ requested = [s \in Slots |-> NoRequest]
  /\ d12_comScope = {}
  /\ pointer = NoPointer
  /\ crashed = FALSE

Init == adapters = << >> /\ Created

\* the adapter list of a machine with one usable adapter
UsableAdapters ==
  << [descOk |-> TRUE, VendorId |-> \H1414, DeviceId |-> \H000d,
      outputs |-> << FALSE, TRUE >>] >>

Init_ ==
  \E list \in InitAdapterLists, accepted \in SUBSET Priorities,
     failAt \in InitFailures :
    d12_init(list, accepted, failAt)

\* an init that nothing fails
InitOk_ == d12_init(UsableAdapters, Priorities, "none")

Deinit_ == \E backendOk \in BOOLEAN : d12_deinit(backendOk)

Capture_ ==
  \E s \in Slots, result \in CaptureResults : d12_capture(s, result)

\* the descriptions of one pixel format
SizeDescs == { d \in SrcDescs : d.Format = "DXGI_FORMAT_B8G8R8A8_UNORM" }
\* a frame of one pixel
OnePixel ==
  [Width |-> 1, Height |-> 1, Format |-> "DXGI_FORMAT_B8G8R8A8_UNORM"]

\* waitFrame on every slot with a frame of each description, or none, into a
\* buffer the largest frame fits
WaitFrame_ ==
  \E s \in Slots, src \in SrcDescs \cup { NoFrame } :
    d12_waitFrame(s, 4 * MaxWidth * MaxHeight, src)

\* on slot 0, frames of each size and waitFrame with each maxFrameSize
WaitFrameZero_ ==
  \E maxFrameSize \in FrameSizes, src \in TallDescs \cup { NoFrame } :
    d12_waitFrame(0, maxFrameSize, src)

\* every failure of getFrame, into one destination of one size
GetFrameCopy_ ==
  \E s \in Slots, src \in SizeDescs \cup { NoFrame }, createOk \in BOOLEAN,
     syncResult \in CaptureResults, execOk \in BOOLEAN :
    d12_getFrame(s, "fbA", 4 * MaxWidth * MaxHeight, src, createOk,
                 syncResult, execOk)

\* frames of each size into one destination of each size, the resource
\* created and the sync passed
GetFrameSize_ ==
  \E s \in Slots, maxFrameSize \in BufferSizes, src \in SizeDescs,
     execOk \in BOOLEAN :
    d12_getFrame(s, "fbA", maxFrameSize, src, TRUE, OK, execOk)

\* on slot 0 every destination and size, resource creation failing or not;
\* on the other slots one destination of every size; nothing failing after
\* the cache
GetFrameCache_ ==
  \E s \in Slots, frameBuffer \in FrameBuffers, maxFrameSize \in BufferSizes,
     createOk \in BOOLEAN :
    /\ s # 0 => frameBuffer = "fbA" /\ createOk
    /\ d12_getFrame(s, frameBuffer, maxFrameSize, OnePixel, createOk, OK,
                    TRUE)

\* a getFrame on slot 0 that nothing fails
GetFrameOne_ ==
  d12_getFrame(0, "fbA", 4 * MaxWidth * MaxHeight, OnePixel, TRUE, OK, TRUE)

UpdatePointer_ ==
  \E shapeUpdate \in BOOLEAN, shapeSize \in 0..MaxShapeSize,
     got \in BOOLEAN, dst \in PointerBuffers \cup { WildPointer },
     dstSize \in 0..(MaxShapeSize + 1), faults \in BOOLEAN :
    d12_updatePointer(shapeUpdate, shapeSize, got, dst, dstSize, faults)

\* the copy pipeline: init, capture, getFrame with each of its failures, deinit
Next == Init_ \/ Deinit_ \/ Capture_ \/ GetFrameCopy_

Spec == Init /\ [][Next]_vars

\* bring-up and teardown
NextInit == Init_ \/ Deinit_ \/ Capture_ \/ WaitFrame_

SpecInit == Init /\ [][NextInit]_vars

\* the frame buffer resource cache
NextCache == InitOk_ \/ Deinit_ \/ GetFrameCache_

SpecCache == Init /\ [][NextCache]_vars

\* the format tracking of waitFrame
NextFormat == InitOk_ \/ Deinit_ \/ Capture_ \/ WaitFrame_ \/ GetFrameOne_

SpecFormat == Init /\ [][NextFormat]_vars

\* the frame description of waitFrame
NextFrame == InitOk_ \/ Deinit_ \/ Capture_ \/ WaitFrameZero_

SpecFrame == Init /\ [][NextFrame]_vars

\* the size of the copy of getFrame
NextCopy == InitOk_ \/ Deinit_ \/ GetFrameSize_

SpecCopy == Init /\ [][NextCopy]_vars

InitEnum == adapters \in AdapterLists /\ Created

SpecEnum == InitEnum /\ [][EnumerateDevices]_vars

SpecPointer == Init /\ [][UpdatePointer_]_vars

\* ------------------------------------------------------------------ getFrame
\* C1: a getFrame call advances the write cursor of its destination frame
\* buffer, by height*width*4, if and only if its copy-and-submit sequence
\* succeeded; when the fetch, the resource cache, the sync hook or the
\* execution of the command group fails, every cursor is left as it was and
\* the call does not return OK.
C1_CursorIffSubmitted ==
  [][call'.op = "getFrame" =>
       IF call'.stage = "none"
       THEN /\ call'.result = OK
            /\ writePtr' =
                 [writePtr EXCEPT ![call'.frameBuffer] =
                    @ + call'.src.Height * call'.src.Width * 4]
       ELSE /\ call'.result # OK
            /\ writePtr' = writePtr]_vars

\* a getFrame whose command group failed to execute has returned
C1_ExecuteFailed ==
  /\ call.op = "getFrame"
  /\ call.stage = "execute"
  /\ writePtr[call.frameBuffer] > 0

\* ----------------------------------------------------------------- waitFrame
\* C2: the format version never decreases; a waitFrame that fetches a
\* resource whose (width, height, pixel format) differs from the last
\* recorded format raises it by exactly 1, a waitFrame that fetches one with
\* the recorded (width, height, pixel format) leaves it, and so does every
\* other call; the descriptor carries the version after the update.
C2_FormatVersion ==
  [][/\ formatVer' >= formatVer
     /\ IF call'.op = "waitFrame" /\ call'.result = OK
        THEN /\ formatVer' =
                  IF << call'.src.Width, call'.src.Height,
                        call'.src.Format >>
                       # << lastFormat.Width, lastFormat.Height,
                            lastFormat.Format >>
                  THEN formatVer + 1
                  ELSE formatVer
             /\ call'.frame.formatVer = formatVer'
        ELSE formatVer' = formatVer]_vars

\* a waitFrame on slot 1 has seen the second format change, one of the pixel
\* format alone, after a getFrame
C2_SecondChange ==
  /\ call.op = "waitFrame"
  /\ call.slot = 1
  /\ call.frame.formatVer = 2
  /\ formatVer = 2
  /\ lastFormat = [Width |-> 1, Height |-> 1,
                   Format |-> "DXGI_FORMAT_R10G10B10A2_UNORM"]
  /\ writePtr["fbA"] > 0

\* C10: a successful waitFrame on a resource of width w > 0 and height h with
\* maxFrameSize m reports dataHeight = min(floor(m / (w*4)), h) and
\* pitch = w*4, and truncated exactly when m < w*h*4; m = w*h*4 gives
\* truncated = false and dataHeight = h, and dataHeight never exceeds h.
C10_FrameGeometry ==
  (call.op = "waitFrame" /\ call.result = OK) =>
    LET w == call.src.Width
        h == call.src.Height
        m == call.maxFrameSize
        frame == call.frame
    IN  /\ w > 0
        /\ frame.dataHeight = Min(m \div (w * 4), h)
        /\ frame.pitch = w * 4
        /\ frame.truncated <=> m < w * h * 4
        /\ m = w * h * 4 => ~frame.truncated /\ frame.dataHeight = h
        /\ frame.dataHeight <= h

\* a frame of two rows of which one fits, with bytes to spare
C10_OneRowFits ==
  /\ call.op = "waitFrame"
  /\ call.result = OK
  /\ call.src.Height = 2
  /\ call.maxFrameSize = call.src.Width * 4 + 1
  /\ call.frame.truncated
  /\ call.frame.dataHeight = 1

\* ------------------------------------------------- the frame buffer resources
\* C3: a call for a slot with the frame buffer of the slot's previous call,
\* which returned a resource, and a size no larger, returns that resource
\* and creates no placed resource; a call whose frame buffer differs from the
\* slot's cached one, or whose size is larger than the cached size, calls
\* CreatePlacedResource, and what it then returns is the new resource.
C3_CacheReuse ==
  [][(call'.op = "getFrame" /\ call'.stage # "fetch") =>
       LET prev == requested[call'.slot]
           entry == frameBuffers[call'.slot]
       IN  /\ ( /\ prev.resource # 0
                /\ call'.frameBuffer = prev.frameBuffer
                /\ call'.maxFrameSize <= prev.size )
               => /\ ~call'.created
                  /\ call'.resource = prev.resource
                  /\ resources' = resources
           /\ ( \/ call'.frameBuffer # entry.frameBuffer
                \/ call'.maxFrameSize > entry.size )
               => /\ call'.created
                  /\ call'.resource # 0 =>
                       /\ call'.resource = Len(resources) + 1
                       /\ resources' =
                            Append(resources,
                                   [frameBuffer |-> call'.frameBuffer,
                                    Width |-> call'.maxFrameSize])]_vars

\* a slot's second resource, created for another frame buffer, is returned
\* again for a smaller size
C3_SmallerSizeHit ==
  /\ call.op = "getFrame"
  /\ call.stage = "none"
  /\ ~call.created
  /\ call.resource = 2
  /\ frameBuffers[call.slot].resource = 2
  /\ call.maxFrameSize < frameBuffers[call.slot].size
  /\ resources[1].frameBuffer # resources[2].frameBuffer

\* C4: when CreatePlacedResource fails, the slot's cache entry (frame buffer,
\* size and resource) is what it was before the call, and the call returns
\* no resource.
C4_FailureLeavesEntry ==
  [][(call'.op = "getFrame" /\ call'.stage = "cache") =>
       /\ call'.resource = 0
       /\ frameBuffers'[call'.slot] = frameBuffers[call'.slot]]_vars

\* after a failed creation the entry names one frame buffer and holds the
\* resource placed on another
C4_EntryMismatch ==
  /\ call.op = "getFrame"
  /\ call.stage = "cache"
  /\ frameBuffers[call.slot].resource # 0
  /\ frameBuffers[call.slot].frameBuffer
       # resources[frameBuffers[call.slot].resource].frameBuffer

\* ---------------------------------------------------------------- d12_init
\* C5, as stated: every init that reaches queue creation first attempts
\* real-time priority; a second attempt, at high priority, follows only a
\* rejected real-time attempt; there are at most two attempts, and init
\* fails if the high priority attempt is rejected.
C5_RealtimeFirst ==
  (call.op = "init" /\ call.attempts # << >>) =>
    LET a == call.attempts
    IN  /\ a[1].Priority = REALTIME
        /\ Len(a) <= 2
        /\ Len(a) = 2 => ~a[1].ok /\ a[2].Priority = HIGH
        /\ (a[Len(a)].Priority = HIGH /\ ~a[Len(a)].ok) =>
             call.result = "false"

\* C5, amended: every init that reaches queue creation first attempts the
\* remembered priority, which is real-time until an init has had a real-time
\* attempt rejected and high from then on; a rejected real-time attempt is
\* followed by one attempt at high priority and nothing else is; there are
\* at most two attempts, and init fails if a high priority attempt is
\* rejected.
C5_RememberedFirst ==
  [][/\ (call'.op = "init" /\ call'.attempts # << >>) =>
          LET a == call'.attempts
          IN  /\ a[1].Priority = queueDesc
              /\ Len(a) <= 2
              /\ Len(a) = 2 <=> (a[1].Priority = REALTIME /\ ~a[1].ok)
              /\ Len(a) = 2 => a[2].Priority = HIGH
              /\ (a[Len(a)].Priority = HIGH /\ ~a[Len(a)].ok) =>
                   call'.result = "false"
              /\ queueDesc' = a[Len(a)].Priority
     /\ queueDesc' # queueDesc =>
          /\ call'.op = "init"
          /\ queueDesc = REALTIME
          /\ call'.attempts # << >>
          /\ ~call'.attempts[1].ok]_vars

\* an init after a downgrade succeeds with a single attempt, at high priority
C5_HighOnly ==
  /\ call.op = "init"
  /\ call.result = "true"
  /\ Len(call.attempts) = 1
  /\ call.attempts[1].Priority = HIGH

\* ------------------------------------------------------ d12_enumerateDevices
Blacklisted(i) ==
  << adapters[i].VendorId, adapters[i].DeviceId >>
    \in { blacklist[n] : n \in 1..Len(blacklist) }

Attached(i) == { n \in 1..Len(adapters[i].outputs) : adapters[i].outputs[n] }

\* the adapters that are not blacklisted and have an attached output
Qualifying ==
  { i \in 1..Len(adapters) :
      adapters[i].descOk /\ ~Blacklisted(i) /\ Attached(i) # {} }

\* the adapters the enumeration gets to: those before the first one whose
\* description cannot be retrieved
Described ==
  { i \in 1..Len(adapters) : \A j \in 1..i : adapters[j].descOk }

Least(S) == CHOOSE x \in S : \A y \in S : x <= y

\* C6: selection never returns an adapter whose (VendorId, DeviceId) is in
\* the blacklist, and fails when the blacklisted adapters are the only ones
\* with an output attached to the desktop.
C6_NeverBlacklisted ==
  selection # << >> =>
    /\ selection[1].ok => ~Blacklisted(selection[1].adapter)
    /\ (\A i \in 1..Len(adapters) : Attached(i) # {} => Blacklisted(i))
         => ~selection[1].ok

\* selection failed on two adapters, both blacklisted, with attached outputs
C6_OnlyBlacklisted ==
  /\ selection # << >>
  /\ ~selection[1].ok
  /\ Len(adapters) = 2
  /\ \A i \in 1..2 : Blacklisted(i) /\ Attached(i) # {}
  /\ << adapters[2].VendorId, adapters[2].DeviceId >>
       = blacklist[Len(blacklist)]

\* C7, as stated: selection returns the first adapter that is not blacklisted
\* and has an attached output, with the first attached output of that
\* adapter; it fails if and only if there is no such adapter; and it retains
\* no handle of an adapter or output it did not select.
C7_FirstQualifying ==
  selection # << >> =>
    LET r == selection[1]
    IN  /\ r.ok <=> Qualifying # {}
        /\ r.ok => /\ r.adapter = Least(Qualifying)
                   /\ r.output = Least(Attached(r.adapter))
        /\ r.held = IF r.ok
                    THEN { << "adapter", r.adapter >>,
                           << "output", r.adapter, r.output >> }
                    ELSE {}

\* C7, amended: selection returns the first adapter that is not blacklisted
\* and has an attached output, with the first attached output of that
\* adapter, provided the description of that adapter and of every adapter
\* before it can be retrieved; it fails if and only if there is no such
\* adapter or the description of an adapter at or before the first such one
\* cannot be retrieved; and it retains no handle of an adapter or output it
\* did not select.
C7_FirstDescribedQualifying ==
  selection # << >> =>
    LET r == selection[1]
    IN  /\ r.ok <=> Qualifying \cap Described # {}
        /\ r.ok => /\ r.adapter = Least(Qualifying)
                   /\ r.output = Least(Attached(r.adapter))
        /\ r.held = IF r.ok
                    THEN { << "adapter", r.adapter >>,
                           << "output", r.adapter, r.output >> }
                    ELSE {}

\* the second adapter is selected, with its second output, after an adapter
\* that shares its vendor with a blacklist entry and has no attached output
C7_SecondAdapter ==
  /\ selection # << >>
  /\ selection[1].ok
  /\ selection[1].adapter = 2
  /\ selection[1].output = 2
  /\ adapters[1].descOk
  /\ ~Blacklisted(1)
  /\ adapters[1].VendorId = \H1414
  /\ Len(adapters[1].outputs) = 2

\* --------------------------------------------------------- d12_updatePointer
\* C8: every pointer update posts the event exactly once; when the event
\* signals a shape change and no buffer could be acquired the event is posted
\* with the shape flag cleared, and otherwise with the flag as it came.
C8_PostedOnce ==
  call.op = "updatePointer" =>
    /\ pointer.posted = 1
    /\ pointer.postedShapeUpdate =
         (pointer.shapeUpdate /\ pointer.acquired # "failed")

\* the copy of an update whose buffer acquisition failed ended the process
\* before the event was posted
C8_NeverPosted ==
  /\ crashed
  /\ pointer.acquired = "failed"
  /\ pointer.posted = 0

\* C9: shape bytes are copied only when the event signals a shape change and
\* the provider supplied a buffer, and then exactly
\* min(capacity, shapeSize) bytes go into that buffer; when the provider
\* supplies none, nothing is copied.
C9_CopyOnlyIntoProvided ==
  call.op = "updatePointer" =>
    /\ pointer.copyDst # "none" =>
         pointer.shapeUpdate /\ pointer.acquired = "ok"
    /\ pointer.acquired = "ok" =>
         /\ pointer.copyDst \in PointerBuffers
         /\ pointer.copySize = Min(pointer.dstSize, pointer.shapeSize)
    /\ pointer.acquired = "failed" => pointer.copyDst = "none"

\* bytes were copied through a pointer the provider never supplied, and the
\* process lived
C9_WildCopy ==
  /\ ~crashed
  /\ pointer.acquired = "failed"
  /\ pointer.copyDst = WildPointer
  /\ pointer.copySize > 0

\* ------------------------------------------------------- d12_init unwinding
\* C11: an init that fails, at whatever stage, returns false with every
\* handle it acquired released, the command group among them, and leaves no
\* field of the module referring to a handle it acquired.
C11_FailedInitReleasesAll ==
  (call.op = "init" /\ call.result = "false") =>
    /\ call.held = {}
    /\ this = NoHandles
    /\ ~copyCommand.created

\* an init failed at the backend, after the command group was created
C11_GroupLeftCreated ==
  /\ call.op = "init"
  /\ call.result = "false"
  /\ call.stage = "backend"
  /\ "ivshmemHeap" \in call.acquired
  /\ call.held = { "copyCommand" }
  /\ copyCommand.created

\* ---------------------------------------------------------------- d12_deinit
\* C12: deinit frees the command group and releases every handle of the
\* global scope whether or not the backend's deinit succeeds, and returns
\* false exactly when the backend's deinit failed.
C12_DeinitReleasesAll ==
  [][call'.op = "deinit" =>
       /\ ~copyCommand'.created
       /\ copyCommand'.gfxList = << >>
       /\ this' = NoHandles
       /\ d12_comScope' = {}
       /\ ~initialised'
       /\ call'.result = "false" <=> call'.stage = "backend"
       /\ call'.result = "true" <=> call'.stage = "none"]_vars

\* a deinit whose backend failed, after two resources were cached
C12_BackendFailed ==
  /\ call.op = "deinit"
  /\ call.result = "false"
  /\ Len(resources) = 2
  /\ d12_comScope = {}

\* --------------------------------------------------------- the command group
\* C13: every submission of the command group holds exactly one copy, the
\* one from the source to the destination of the getFrame that submits it; a
\* copy recorded by a getFrame that failed at the sync stage is never
\* executed by a later call.
C13_OneCopyPerSubmission ==
  (call.op = "getFrame" /\ call.submitted # << >>) =>
    /\ Len(call.submitted) = 1
    /\ call.submitted[1].src = call.slot
    /\ call.submitted[1].dst = call.resource
    /\ call.submitted[1].Width = call.src.Width
    /\ call.submitted[1].Height = call.src.Height

\* a getFrame submitted, ahead of its own copy, the copy an earlier getFrame
\* on the other slot recorded before its sync failed
C13_StaleCopySubmitted ==
  /\ call.op = "getFrame"
  /\ call.result = OK
  /\ Len(call.submitted) = 2
  /\ call.submitted[1].src # call.slot
  /\ call.submitted[2].src = call.slot

\* ------------------------------------------------------ the cached resources
\* C14: every resource the cache returns was created for the frame buffer
\* asked for, with a size no smaller than the size asked for; and whenever a
\* slot holds a resource, the frame buffer and size recorded for the slot are
\* those the resource was created with.
C14_ReturnedResourceFits ==
  /\ (call.op = "getFrame" /\ call.resource # 0) =>
       /\ resources[call.resource].frameBuffer = call.frameBuffer
       /\ resources[call.resource].Width >= call.maxFrameSize
  /\ \A s \in Slots :
       frameBuffers[s].resource # 0 =>
         resources[frameBuffers[s].resource] =
           [frameBuffer |-> frameBuffers[s].frameBuffer,
            Width |-> frameBuffers[s].size]

\* the cache returned, without creating anything, a resource placed on
\* another frame buffer than the one asked for
C14_WrongBufferReturned ==
  /\ call.op = "getFrame"
  /\ call.result = OK
  /\ ~call.created
  /\ call.resource # 0
  /\ resources[call.resource].frameBuffer # call.frameBuffer

C16_CopyWithinMaxSize ==
  [][(call'.op = "getFrame" /\ call'.result = OK) =>
       LET w == call'.src.Width
           h == call'.src.Height
           m == call'.maxFrameSize
           rows == Min(m \div (w * 4), h)
           advance == writePtr'[call'.frameBuffer]
                        - writePtr[call'.frameBuffer]
       IN  /\ advance <= m
           /\ advance = rows * w * 4
           /\ \A n \in 1..Len(call'.submitted) :
                call'.submitted[n].src = call'.slot =>
                  /\ call'.submitted[n].Height = rows
                  /\ call'.submitted[n].Height
                       * call'.submitted[n].RowPitch <= m]_vars

\* a frame of 8 bytes was copied into a destination of 4 and the write
\* cursor stands beyond the destination
C16_CopiedPastDestination ==
  /\ call.op = "getFrame"
  /\ call.result = OK
  /\ call.stage = "none"
  /\ call.maxFrameSize < call.src.Width * call.src.Height * 4
  /\ resources[call.resource].Width = call.maxFrameSize
  /\ writePtr[call.frameBuffer] > call.maxFrameSize
  /\ Len(call.submitted) = 1

\* ------------------------------------------------- the references of the cache
\* C17: when the cache replaces a slot's resource its reference to the prior
\* resource is dropped: the global scope holds a reference to nothing but
\* the resource each slot has cached, at most one per slot, however many
\* replacements there were.
C17_OneReferencePerSlot ==
  /\ d12_comScope \subseteq { frameBuffers[s].resource : s \in Slots }
  /\ Cardinality(d12_comScope) <= Cardinality(Slots)

\* slot 0 had its resource replaced, slot 1 has none, and the global scope
\* holds both resources of slot 0
C17_PriorStillHeld ==
  /\ initialised
  /\ frameBuffers[0].resource = 2
  /\ frameBuffers[1].resource = 0
  /\ requested[1] = NoRequest
  /\ d12_comScope = { 1, 2 }

\* ------------------------------------------------- the remembered downgrade
\* C18: once an init has had its real-time queue creation rejected, every
\* later init makes at most one attempt, at high priority, and never asks
\* for real-time again, whether or not the earlier init succeeded.
C18_DowngradeRemembered ==
  [][(call'.op = "init" /\ downgraded) =>
       /\ Len(call'.attempts) <= 1
       /\ \A n \in 1..Len(call'.attempts) :
            call'.attempts[n].Priority = HIGH]_vars

\* an init that failed with its single attempt, at high priority, rejected
C18_HighRejected ==
  /\ downgraded
  /\ call.op = "init"
  /\ call.result = "false"
  /\ call.attempts = << [Priority |-> HIGH, ok |-> FALSE] >>

\* ------------------------------------------------- waitFrame moves no data
\* C19: waitFrame, succeeding or failing, leaves every slot's cache entry,
\* the command group, the command queue and every write cursor as they
\* were; it changes nothing of the module but the last format and the format
\* version, and neither of them when the backend has no resource.
C19_WaitFrameDescriptive ==
  [][call'.op = "waitFrame" =>
       /\ UNCHANGED << frameBuffers, resources, requested, d12_comScope,
                       copyCommand, this, queueDesc, writePtr, initialised,
                       backend >>
       /\ call'.result # OK => UNCHANGED << lastFormat, formatVer >>]_vars

\* a waitFrame found no resource, after a format was recorded and a frame
\* was copied out of slot 0
C19_NoResource ==
  /\ call.op = "waitFrame"
  /\ call.result = ERROR
  /\ call.stage = "fetch"
  /\ formatVer = 1
  /\ lastFormat # NoFormat
  /\ frameBuffers[0].resource # 0
  /\ writePtr["fbA"] > 0

====
